---- MODULE Spec2Model ----
(***************************************************************************)
(* Model of streamlit_app.py: the Nairobi pollutant dashboard script.      *)
(* One run of the script is one behaviour: load_data, the per-response     *)
(* ingestion loop, pd.concat, the rolling columns, the daily groupby and   *)
(* the four threshold selections.                                          *)
(*                                                                         *)
(* Time is counted in whole hours since the UTC epoch (hourly.Interval()   *)
(* is one hour).  Concentrations are exact rationals [n, d]; d = 0 is NaN. *)
(***************************************************************************)
EXTENDS Integers, Sequences, FiniteSets, TLC

VARIABLES pc, responses, idx, all_hourly_data, combined_defined, combined_df,
          ozone_8hr_rolling, no2_24hr_rolling_max, df_daily,
          above_hourly, above_no2, above_threshold_pm, above,
          messages, ran

vars == <<pc, responses, idx, all_hourly_data, combined_defined, combined_df,
          ozone_8hr_rolling, no2_24hr_rolling_max, df_daily,
          above_hourly, above_no2, above_threshold_pm, above,
          messages, ran>>

---------------------------------------------------------------------------
(* Bounds of the provider's answers *)
MaxResponses == 2
MaxLen == 13

(* Program constants *)
OzoneWindow == 8
No2Window == 24
threshold_hourly_o3 == 100
threshold_no2_hourly == 40
threshold_pm == 15
threshold_no2_daily == 20
UtcOffsetHours == 3
HoursPerDay == 24

---------------------------------------------------------------------------
(* Floating point values: exact rationals in lowest terms, NaN as d = 0 *)
NaN == [n |-> 0, d |-> 0]
IsNaN(v) == v.d = 0
Val(k) == [n |-> k, d |-> 1]

RECURSIVE GCD(_, _)
GCD(a, b) == IF b = 0 THEN a ELSE GCD(b, a % b)

Norm(n, d) == LET g == GCD(n, d) IN [n |-> n \div g, d |-> d \div g]
Add(a, b) == Norm(a.n * b.d + b.n * a.d, a.d * b.d)
DivInt(a, c) == Norm(a.n, a.d * c)
Less(a, b) == a.n * b.d < b.n * a.d

(* pandas '>' of a column entry against a number: NaN > T is False *)
ExceedsOrEqual(v, T) == ~IsNaN(v) /\ v.n >= T * v.d
Exceeds(v, T) == ~IsNaN(v) /\ v.n > T * v.d

---------------------------------------------------------------------------
(* The provider: each response is one contiguous hourly segment *)
Starts == {21, 33}
Lens == {0, 1, 10, MaxLen}
Profiles == {"ramp", "guideline", "gappy"}

Responses == [start : Starts, len : Lens, profile : Profiles]
ResponseLists == UNION {[1..n -> Responses] : n \in 0..MaxResponses}

(* hourly.Variables(v).ValuesAsNumpy()[k] *)
ValuesAsNumpy(response, var, k) ==
    CASE response.profile = "ramp" ->
            (CASE var = "ozone" -> Val(50 + 10 * k)
               [] var = "pm"    -> Val(10 + 10 * k)
               [] var = "no"    -> Val(20))
      [] response.profile = "guideline" ->
            (CASE var = "ozone" -> IF k = 0 THEN NaN ELSE Val(100)
               [] var = "pm"    -> Val(15)
               [] var = "no"    -> Val(40))
      [] response.profile = "gappy" ->
            (CASE var = "ozone" -> IF k = 2 THEN Val(120) ELSE NaN
               [] var = "pm"    -> NaN
               [] var = "no"    -> IF k = 1 THEN Val(60) ELSE NaN)

(* df['date'].dt.tz_convert('Africa/Nairobi').dt.date, as a day number *)
DayOfUtc(date) == date \div HoursPerDay
DayOf(date) == (date + UtcOffsetHours) \div HoursPerDay

(* The DataFrame built for one response *)
ResponseFrame(response) ==
    [k \in 1..response.len |->
        [date  |-> response.start + (k - 1),
         day   |-> DayOf(response.start + (k - 1)),
         ozone |-> ValuesAsNumpy(response, "ozone", k - 1),
         pm    |-> ValuesAsNumpy(response, "pm", k - 1),
         no    |-> ValuesAsNumpy(response, "no", k - 1)]]

RECURSIVE Concat(_)
Concat(frames) ==
    IF frames = <<>> THEN <<>> ELSE Head(frames) \o Concat(Tail(frames))

---------------------------------------------------------------------------
(* Reductions, skipping NaN *)
Present(vals) == SelectSeq(vals, LAMBDA v : ~IsNaN(v))

RECURSIVE Sum(_)
Sum(vals) == IF vals = <<>> THEN Val(0) ELSE Add(Head(vals), Sum(Tail(vals)))

RECURSIVE Largest(_)
Largest(vals) ==
    IF Len(vals) = 1 THEN vals[1]
    ELSE LET m == Largest(Tail(vals))
         IN IF Less(m, Head(vals)) THEN Head(vals) ELSE m

MeanZeroFill(vals) ==
    IF Present(vals) = <<>> THEN NaN ELSE DivInt(Sum(Present(vals)), Len(vals))
Mean(vals) ==
    IF Present(vals) = <<>> THEN NaN
    ELSE DivInt(Sum(Present(vals)), Len(Present(vals)))

Max(vals) == IF Present(vals) = <<>> THEN NaN ELSE Largest(Present(vals))

Column(df, name) == [i \in 1..Len(df) |-> df[i][name]]

(* Series.rolling(window=w, min_periods=1): the trailing w rows *)
WindowRows(i, w) == (IF i - w + 1 < 1 THEN 1 ELSE i - w + 1)..i
RollingWindow(col, i, w) ==
    SubSeq(col, IF i - w + 1 < 1 THEN 1 ELSE i - w + 1, i)

RollingMeanShort(col, w) ==
    [i \in 1..Len(col) |-> Mean(RollingWindow(col, i, w - 1))]
RollingMean(col, w) == [i \in 1..Len(col) |-> Mean(RollingWindow(col, i, w))]
RollingMax(col, w) == [i \in 1..Len(col) |-> Max(RollingWindow(col, i, w))]

---------------------------------------------------------------------------
(* groupby('day').agg(...).reset_index() *)
RECURSIVE SortedSeq(_)
SortedSeq(S) ==
    IF S = {} THEN <<>>
    ELSE LET m == CHOOSE x \in S : \A y \in S : x <= y
         IN <<m>> \o SortedSeq(S \ {m})

GroupValues(df, col, day) ==
    LET rows == SelectSeq([i \in 1..Len(df) |-> [day |-> df[i].day, v |-> col[i]]],
                          LAMBDA r : r.day = day)
    IN [k \in 1..Len(rows) |-> rows[k].v]

DailyAgg(df, roll_o3, roll_no2) ==
    LET days == SortedSeq({df[i].day : i \in 1..Len(df)})
    IN [k \in 1..Len(days) |->
          [day |-> days[k],
           daily_ozone_mean |-> Mean(GroupValues(df, Column(df, "ozone"), days[k])),
           daily_pm_average |-> Mean(GroupValues(df, Column(df, "pm"), days[k])),
           ozone_8hr_rolling_daily_mean |-> Mean(GroupValues(df, roll_o3, days[k])),
           daily_no2_max |-> Max(GroupValues(df, Column(df, "no"), days[k])),
           no2_24hr_rolling_daily_mean |-> Mean(GroupValues(df, roll_no2, days[k]))]]

---------------------------------------------------------------------------
(* df[df[col] > T]: the selected rows, as (index label, value) *)
Entries(labels, col) == [i \in 1..Len(col) |-> [at |-> labels[i], value |-> col[i]]]
Select(labels, col, T) ==
    SelectSeq(Entries(labels, col), LAMBDA e : Exceeds(e.value, T))

NotnaAny(col) == \E i \in 1..Len(col) : ~IsNaN(col[i])

---------------------------------------------------------------------------
Init ==
    /\ pc = "load"
    /\ responses = <<>>
    /\ idx = 1
    /\ all_hourly_data = <<>>
    /\ combined_defined = FALSE
    /\ combined_df = <<>>
    /\ ozone_8hr_rolling = <<>>
    /\ no2_24hr_rolling_max = <<>>
    /\ df_daily = <<>>
    /\ above_hourly = <<>>
    /\ above_no2 = <<>>
    /\ above_threshold_pm = <<>>
    /\ above = <<>>
    /\ messages = {}
    /\ ran = <<>>

(* load_data returns the provider's responses *)
LoadData ==
    /\ pc = "load"
    /\ \E rs \in ResponseLists : responses' = rs
    /\ pc' = "responses"
    /\ UNCHANGED <<idx, all_hourly_data, combined_defined, combined_df,
                   ozone_8hr_rolling, no2_24hr_rolling_max, df_daily,
                   above_hourly, above_no2, above_threshold_pm, above,
                   messages, ran>>

(* load_data catches the exception, reports it and returns None *)
LoadDataFails ==
    /\ pc = "load"
    /\ responses' = <<>>
    /\ messages' = messages \cup {"error: fetching data"}
    /\ pc' = "responses"
    /\ UNCHANGED <<idx, all_hourly_data, combined_defined, combined_df,
                   ozone_8hr_rolling, no2_24hr_rolling_max, df_daily,
                   above_hourly, above_no2, above_threshold_pm, above, ran>>

(* if responses: ... else: st.info(...) *)
CheckResponses ==
    /\ pc = "responses"
    /\ IF responses # <<>>
       THEN /\ pc' = "ingest"
            /\ UNCHANGED messages
       ELSE /\ pc' = "guard"
            /\ messages' = messages \cup {"info: no data could be loaded"}
    /\ UNCHANGED <<responses, idx, all_hourly_data, combined_defined, combined_df,
                   ozone_8hr_rolling, no2_24hr_rolling_max, df_daily,
                   above_hourly, above_no2, above_threshold_pm, above, ran>>

(* one iteration of 'for response in responses' *)
IngestResponse ==
    /\ pc = "ingest"
    /\ idx <= Len(responses)
    /\ all_hourly_data' = Append(all_hourly_data, ResponseFrame(responses[idx]))
    /\ idx' = idx + 1
    /\ UNCHANGED <<pc, responses, combined_defined, combined_df,
                   ozone_8hr_rolling, no2_24hr_rolling_max, df_daily,
                   above_hourly, above_no2, above_threshold_pm, above,
                   messages, ran>>

(* if all_hourly_data: combined_df = pd.concat(all_hourly_data) *)
ConcatFrames ==
    /\ pc = "ingest"
    /\ idx > Len(responses)
    /\ IF all_hourly_data # <<>>
       THEN /\ combined_df' = Concat(all_hourly_data)
            /\ combined_defined' = TRUE
            /\ UNCHANGED messages
       ELSE /\ messages' = messages \cup {"info: no hourly data found"}
            /\ UNCHANGED <<combined_df, combined_defined>>
    /\ pc' = "guard"
    /\ UNCHANGED <<responses, idx, all_hourly_data,
                   ozone_8hr_rolling, no2_24hr_rolling_max, df_daily,
                   above_hourly, above_no2, above_threshold_pm, above, ran>>

(* 'combined_df' in locals() and not combined_df.empty *)
CombinedDefinedOnly == combined_defined
CombinedAvailable == combined_defined /\ combined_df # <<>>

GuardPass ==
    /\ pc = "guard"
    /\ CombinedAvailable
    /\ pc' = "rolling"
    /\ UNCHANGED <<responses, idx, all_hourly_data, combined_defined, combined_df,
                   ozone_8hr_rolling, no2_24hr_rolling_max, df_daily,
                   above_hourly, above_no2, above_threshold_pm, above,
                   messages, ran>>

NoCombinedData ==
    /\ pc = "guard"
    /\ ~CombinedAvailable
    /\ messages' = messages \cup {"info: no combined hourly data"}
    /\ pc' = "done"
    /\ UNCHANGED <<responses, idx, all_hourly_data, combined_defined, combined_df,
                   ozone_8hr_rolling, no2_24hr_rolling_max, df_daily,
                   above_hourly, above_no2, above_threshold_pm, above, ran>>

(* the two rolling columns *)
RollingColumns ==
    /\ pc = "rolling"
    /\ ozone_8hr_rolling' = RollingMean(Column(combined_df, "ozone"), OzoneWindow)
    /\ no2_24hr_rolling_max' = RollingMax(Column(combined_df, "no"), No2Window)
    /\ ran' = Append(ran, "rolling")
    /\ pc' = "daily"
    /\ UNCHANGED <<responses, idx, all_hourly_data, combined_defined, combined_df,
                   df_daily, above_hourly, above_no2, above_threshold_pm, above,
                   messages>>

DailyAggregation ==
    /\ pc = "daily"
    /\ df_daily' = DailyAgg(combined_df, ozone_8hr_rolling, no2_24hr_rolling_max)
    /\ ran' = Append(ran, "daily")
    /\ pc' = "ozone_plot"
    /\ UNCHANGED <<responses, idx, all_hourly_data, combined_defined, combined_df,
                   ozone_8hr_rolling, no2_24hr_rolling_max,
                   above_hourly, above_no2, above_threshold_pm, above, messages>>

Dates(df) == Column(df, "date")
Days(daily) == Column(daily, "day")

OzonePlot ==
    /\ pc = "ozone_plot"
    /\ IF NotnaAny(ozone_8hr_rolling)
       THEN above_hourly' = Select(Dates(combined_df), ozone_8hr_rolling,
                                   threshold_hourly_o3)
       ELSE UNCHANGED above_hourly
    /\ ran' = Append(ran, "threshold")
    /\ pc' = "no2_plot"
    /\ UNCHANGED <<responses, idx, all_hourly_data, combined_defined, combined_df,
                   ozone_8hr_rolling, no2_24hr_rolling_max, df_daily,
                   above_no2, above_threshold_pm, above, messages>>

NO2HourlySelectRaw ==
    Select(Dates(combined_df), Column(combined_df, "no"), threshold_no2_hourly)
NO2HourlySelect ==
    Select(Dates(combined_df), no2_24hr_rolling_max, threshold_no2_hourly)

NO2Plot ==
    /\ pc = "no2_plot"
    /\ IF NotnaAny(no2_24hr_rolling_max)
       THEN above_no2' = NO2HourlySelect
       ELSE UNCHANGED above_no2
    /\ ran' = Append(ran, "threshold")
    /\ pc' = "pm_plot"
    /\ UNCHANGED <<responses, idx, all_hourly_data, combined_defined, combined_df,
                   ozone_8hr_rolling, no2_24hr_rolling_max, df_daily,
                   above_hourly, above_threshold_pm, above, messages>>

PMPlot ==
    /\ pc = "pm_plot"
    /\ IF df_daily # <<>>
       THEN /\ above_threshold_pm' =
                  Select(Days(df_daily), Column(df_daily, "daily_pm_average"),
                         threshold_pm)
            /\ ran' = Append(ran, "threshold")
       ELSE UNCHANGED <<above_threshold_pm, ran>>
    /\ pc' = "no2_daily_plot"
    /\ UNCHANGED <<responses, idx, all_hourly_data, combined_defined, combined_df,
                   ozone_8hr_rolling, no2_24hr_rolling_max, df_daily,
                   above_hourly, above_no2, above, messages>>

NO2DailyPlot ==
    /\ pc = "no2_daily_plot"
    /\ IF df_daily # <<>>
       THEN /\ above' = Select(Days(df_daily), Column(df_daily, "daily_no2_max"),
                               threshold_no2_daily)
            /\ ran' = Append(ran, "threshold")
            /\ UNCHANGED messages
       ELSE /\ messages' = messages \cup {"info: no daily NO2 data"}
            /\ UNCHANGED <<above, ran>>
    /\ pc' = "done"
    /\ UNCHANGED <<responses, idx, all_hourly_data, combined_defined, combined_df,
                   ozone_8hr_rolling, no2_24hr_rolling_max, df_daily,
                   above_hourly, above_no2, above_threshold_pm>>

Next ==
    \/ LoadData
    \/ LoadDataFails
    \/ CheckResponses
    \/ IngestResponse
    \/ ConcatFrames
    \/ GuardPass
    \/ NoCombinedData
    \/ RollingColumns
    \/ DailyAggregation
    \/ OzonePlot
    \/ NO2Plot
    \/ PMPlot
    \/ NO2DailyPlot

Spec == Init /\ [][Next]_vars

---------------------------------------------------------------------------
(* Helpers of the properties *)
Rows == 1..Len(combined_df)
Range(f) == {f[i] : i \in DOMAIN f}
Rolled == ran # <<>>
Bucketed == \E k \in 1..Len(ran) : ran[k] = "daily"

RECURSIVE SumOver(_, _)
SumOver(S, col) ==
    IF S = {} THEN 0
    ELSE LET j == CHOOSE x \in S : TRUE IN col[j].n + SumOver(S \ {j}, col)

(* values of the rows whose timestamp lies in (t_i - w, t_i] *)
ElapsedWindow(df, name, i, w) ==
    LET hit == SelectSeq(df, LAMBDA r : r.date > df[i].date - w /\ r.date <= df[i].date)
    IN [k \in 1..Len(hit) |-> hit[k][name]]

(* first occurrence of every timestamp, in order of arrival *)
FirstRows(df) == {i \in 1..Len(df) : \A j \in 1..(i - 1) : df[j].date # df[i].date}
Dedup(df) ==
    LET tagged == SelectSeq([i \in 1..Len(df) |-> [i |-> i, r |-> df[i]]],
                            LAMBDA x : x.i \in FirstRows(df))
    IN [k \in 1..Len(tagged) |-> tagged[k].r]
PosOf(df, date) == CHOOSE k \in 1..Len(df) : df[k].date = date
RemoveRow(df, j) == SubSeq(df, 1, j - 1) \o SubSeq(df, j + 1, Len(df))

---------------------------------------------------------------------------
(* C1: every rolling value (8-hour ozone mean, 24-hour NO2 max) is the
   reduction over exactly the observations whose timestamp lies in the
   trailing right-closed window (t_i - window_hours, t_i]. *)
C1_ElapsedHourWindow ==
    Rolled =>
        \A i \in Rows :
            /\ ozone_8hr_rolling[i] = Mean(ElapsedWindow(combined_df, "ozone", i, 8))
            /\ no2_24hr_rolling_max[i] = Max(ElapsedWindow(combined_df, "no", i, 24))

---------------------------------------------------------------------------
(* C2: each of the four selections holds exactly the entries of its series
   whose value is strictly greater than the threshold: every flag is an
   entry of the series with value > T, there are as many flags as entries
   with value > T (so none is missed and none with value <= T or NaN is
   taken), and an empty series gives no flag. *)
StrictlyAbove(v, T) == v.d # 0 /\ v.n > T * v.d
FlagsExactly(flags, labels, col, T) ==
    /\ \A k \in 1..Len(flags) :
          /\ StrictlyAbove(flags[k].value, T)
          /\ \E i \in 1..Len(col) : flags[k] = [at |-> labels[i], value |-> col[i]]
    /\ \A i \in 1..Len(col) :
          StrictlyAbove(col[i], T) =>
              \E k \in 1..Len(flags) : flags[k] = [at |-> labels[i], value |-> col[i]]
    /\ Len(flags) = Cardinality({i \in 1..Len(col) : StrictlyAbove(col[i], T)})

C2_StrictThreshold ==
    /\ \A T \in {threshold_hourly_o3, threshold_no2_hourly, threshold_pm,
                 threshold_no2_daily} : Select(<<>>, <<>>, T) = <<>>
    /\ pc = "done" /\ Rolled =>
        /\ FlagsExactly(above_hourly, Dates(combined_df), ozone_8hr_rolling,
                        threshold_hourly_o3)
        /\ FlagsExactly(above_no2, Dates(combined_df), no2_24hr_rolling_max,
                        threshold_no2_hourly)
        /\ FlagsExactly(above_threshold_pm, Days(df_daily),
                        Column(df_daily, "daily_pm_average"), threshold_pm)
        /\ FlagsExactly(above, Days(df_daily),
                        Column(df_daily, "daily_no2_max"), threshold_no2_daily)

(* a finished run with a rolling ozone mean of exactly 100 left unflagged,
   one above 100 flagged, and a flagged PM2.5 day *)
C2_Witness ==
    /\ pc = "done"
    /\ above_hourly # <<>>
    /\ \E i \in Rows : ozone_8hr_rolling[i] = Val(100)
    /\ \E i \in Rows : IsNaN(ozone_8hr_rolling[i])
    /\ above_threshold_pm # <<>>

---------------------------------------------------------------------------
(* C3: the daily aggregation has one bucket per distinct Africa/Nairobi
   calendar date (UTC instant + 3 h) of the input timestamps, none extra,
   none missing, none twice, ordered by date ascending. *)
C3_DailyBuckets ==
    Bucketed =>
        /\ {df_daily[k].day : k \in 1..Len(df_daily)}
              = {(combined_df[i].date + 3) \div 24 : i \in Rows}
        /\ \A k, l \in 1..Len(df_daily) : k < l => df_daily[k].day < df_daily[l].day

(* a bucketed store whose rows fall on two local dates, the later segment
   ingested first *)
C3_Witness ==
    /\ Bucketed
    /\ Len(df_daily) = 2
    /\ \E i, j \in Rows : i < j /\ combined_df[i].day > combined_df[j].day

---------------------------------------------------------------------------
(* C4: when every repeated timestamp carries identical values, the rolling
   series and the daily buckets equal those of the deduplicated
   observations ingested once. *)
C4_Idempotent ==
    (Bucketed /\ \A i, j \in Rows :
                    combined_df[i].date = combined_df[j].date
                        => combined_df[i] = combined_df[j]) =>
        LET D == Dedup(combined_df)
            rO == RollingMean(Column(D, "ozone"), OzoneWindow)
            rN == RollingMax(Column(D, "no"), No2Window)
        IN /\ df_daily = DailyAgg(D, rO, rN)
           /\ \A i \in Rows :
                 /\ ozone_8hr_rolling[i] = rO[PosOf(D, combined_df[i].date)]
                 /\ no2_24hr_rolling_max[i] = rN[PosOf(D, combined_df[i].date)]

---------------------------------------------------------------------------
(* C5: the timestamps of the combined store are strictly increasing and
   unique, and every row is an hour some response reported. *)
C5_StrictlyIncreasing ==
    combined_defined =>
        /\ \A i, j \in Rows : i < j => combined_df[i].date < combined_df[j].date
        /\ \A i \in Rows :
              \E r \in 1..Len(responses) :
                  /\ combined_df[i].date >= responses[r].start
                  /\ combined_df[i].date < responses[r].start + responses[r].len

---------------------------------------------------------------------------
(* C6: removing an observation whose timestamp is later than t leaves the
   rolling value at t (8-hour ozone mean, 24-hour NO2 max) unchanged. *)
C6_Causal ==
    Rolled =>
        \A j \in Rows :
            LET S == RemoveRow(combined_df, j)
                rO == RollingMean(Column(S, "ozone"), OzoneWindow)
                rN == RollingMax(Column(S, "no"), No2Window)
            IN \A i \in Rows :
                  combined_df[i].date < combined_df[j].date =>
                      LET p == IF i < j THEN i ELSE i - 1
                      IN /\ rO[p] = ozone_8hr_rolling[i]
                         /\ rN[p] = no2_24hr_rolling_max[i]

---------------------------------------------------------------------------
(* The scenario: ozone 50,60,...,140 over the 10 consecutive hours from
   local 00:00 *)
Scenario ==
    /\ Len(combined_df) = 10
    /\ \A k \in 1..10 :
          /\ (combined_df[k].date + 3) % 24 = k - 1
          /\ combined_df[k].ozone = Val(50 + 10 * (k - 1))

(* C7 as stated: the mean at hour index 7 is 95, hour 7 is not flagged and
   hour 8 is flagged with mean 105. *)
C7_AsStated ==
    (pc = "done" /\ Scenario) =>
        /\ ozone_8hr_rolling[8] = Val(95)
        /\ \A k \in 1..Len(above_hourly) : above_hourly[k].at # combined_df[8].date
        /\ ozone_8hr_rolling[9] = Val(105)
        /\ \E k \in 1..Len(above_hourly) : above_hourly[k].at = combined_df[9].date

(* C7 amended: the mean at hour index 7 is 85 (mean of 50..120), at index 8
   it is 95 and at index 9 it is 105; against threshold 100 hour indices 7
   and 8 are not flagged and hour index 9 is. *)
C7_Scenario ==
    (pc = "done" /\ Scenario) =>
        /\ ozone_8hr_rolling[8] = Val(85)
        /\ ozone_8hr_rolling[9] = Val(95)
        /\ ozone_8hr_rolling[10] = Val(105)
        /\ above_hourly = <<[at |-> combined_df[10].date, value |-> Val(105)]>>

C7_Witness == pc = "done" /\ Scenario /\ Len(above_hourly) = 1

---------------------------------------------------------------------------
(* C8 as stated: the 40 guideline is evaluated per day against
   no2_24hr_rolling_daily_mean; 100 against the hourly ozone rolling mean,
   15 against the PM2.5 daily mean, 20 against the NO2 daily max. *)
HourlyAbove(col, T) ==
    {[at |-> combined_df[i].date, value |-> col[i]] :
        i \in {r \in Rows : StrictlyAbove(col[r], T)}}
DailyAbove(name, T) ==
    {[at |-> df_daily[k].day, value |-> df_daily[k][name]] :
        k \in {b \in 1..Len(df_daily) : StrictlyAbove(df_daily[b][name], T)}}

C8_AsStated ==
    pc = "done" /\ Rolled =>
        /\ Range(above_no2) = DailyAbove("no2_24hr_rolling_daily_mean", 40)
        /\ Range(above_hourly) = HourlyAbove(ozone_8hr_rolling, 100)
        /\ Range(above_threshold_pm) = DailyAbove("daily_pm_average", 15)
        /\ Range(above) = DailyAbove("daily_no2_max", 20)

(* C8 amended: the 40 guideline is evaluated at hourly resolution against
   the 24-hour rolling max itself, one flag per row above 40; 100 against
   the hourly 8-hour ozone rolling mean, 15 against the PM2.5 daily mean
   and 20 against the NO2 daily max. *)
C8_Resolutions ==
    pc = "done" /\ Rolled =>
        /\ Range(above_no2) = HourlyAbove(no2_24hr_rolling_max, 40)
        /\ Range(above_hourly) = HourlyAbove(ozone_8hr_rolling, 100)
        /\ Range(above_threshold_pm) = DailyAbove("daily_pm_average", 15)
        /\ Range(above) = DailyAbove("daily_no2_max", 20)

(* a finished run in which all four selections are non-empty and the NO2
   rolling max is above 40 on a row whose raw NO2 is not *)
C8_Witness ==
    /\ pc = "done"
    /\ above_no2 # <<>> /\ above_hourly # <<>>
    /\ above_threshold_pm # <<>> /\ above # <<>>
    /\ \E i \in Rows : /\ StrictlyAbove(no2_24hr_rolling_max[i], 40)
                       /\ ~StrictlyAbove(combined_df[i].no, 40)

---------------------------------------------------------------------------
(* C9: a rolling entry is NaN exactly when the trailing window of rows has
   no present value; otherwise it is the mean (ozone) or max (NO2) of the
   present values only, absent ones neither counted nor taken as zero. *)
PresentIn(name, i, w) == {j \in WindowRows(i, w) : combined_df[j][name].d # 0}

---------------------------------------------------------------------------
(* C10: a failed fetch or an empty store ends the run with the "no data"
   notice and with no rolling series, daily bucket or flag computed; the
   rolling, daily and threshold stages run only on a non-empty combined
   store, in that order. *)
StageOrder == <<"rolling", "daily", "threshold", "threshold", "threshold", "threshold">>

C10_NoData ==
    /\ Rolled => combined_defined /\ combined_df # <<>>
    /\ Len(ran) <= Len(StageOrder)
    /\ \A k \in 1..Len(ran) : ran[k] = StageOrder[k]
    /\ pc \in {"load", "responses", "ingest", "guard", "rolling", "daily",
               "ozone_plot", "no2_plot", "pm_plot", "no2_daily_plot", "done"}
    /\ (combined_df = <<>> \/ "error: fetching data" \in messages) =>
          /\ ran = <<>>
          /\ ozone_8hr_rolling = <<>> /\ no2_24hr_rolling_max = <<>>
          /\ df_daily = <<>>
          /\ above_hourly = <<>> /\ above_no2 = <<>>
          /\ above_threshold_pm = <<>> /\ above = <<>>
          /\ pc = "done" => "info: no combined hourly data" \in messages
    /\ pc = "done" =>
          \/ "info: no combined hourly data" \in messages
          \/ Len(ran) = Len(StageOrder)

(* a finished run whose responses held no hour at all *)
C10_Witness ==
    /\ pc = "done"
    /\ responses # <<>>
    /\ combined_defined /\ combined_df = <<>>
    /\ "info: no combined hourly data" \in messages

====
